---- MODULE Spec2Model ----
(***************************************************************************)
(* Regional batch-collection pipeline of AE-P01:                           *)
(*   - the SQLite store (aviation_database.py): reference tables airlines  *)
(*     and airports written with INSERT OR REPLACE, the append-only fact   *)
(*     tables routes and flight_schedules, and the api_usage log;          *)
(*   - the provider client (aviation_edge_schedule_client.py);             *)
(*   - the orchestrator (regional_data_collector.py).                      *)
(* Three specifications share the state: Spec is the process of            *)
(* execute_collection.py (construction, collect_regional_data, exit),      *)
(* StoreSpec calls the store's API in any order, ClientSpec makes one call *)
(* of a provider client.                                                   *)
(***************************************************************************)
EXTENDS Integers, Sequences, FiniteSets, TLC

\* Python None / SQL NULL.
None == "None"

\* Python truthiness of an optional string ("if airline_iata:").
Truthy(x) == x /= None /\ x /= ""

(***************************************************************************)
(* Bounds of the model.                                                    *)
(***************************************************************************)
\* Number of store API calls of one StoreSpec behaviour.
MaxOps == 2

(***************************************************************************)
(* The store.  db is the SQLite file: one field per table, the two        *)
(* AUTOINCREMENT counters, and whether the schema in the file declares     *)
(* icao_code UNIQUE (create_tables does; a file first created by the       *)
(* future-schedules client does not, and CREATE TABLE IF NOT EXISTS then   *)
(* keeps that schema).  Columns that no operation modelled here reads and  *)
(* that stay NULL or copy a field already kept (terminals, actual times,   *)
(* status, gate, delay, timestamps) are left out of the rows.              *)
(***************************************************************************)
VARIABLES
    db,     \* the store
    hist    \* StoreSpec: the store API calls made so far, in order

EmptyDb(icaoUnique) ==
    [ airlines         |-> {},
      airports         |-> {},
      routes           |-> << >>,
      flight_schedules |-> << >>,
      api_usage        |-> << >>,
      airline_seq      |-> 0,
      airport_seq      |-> 0,
      icao_unique      |-> icaoUnique ]

\* A row of `table` that a new row violates a UNIQUE constraint with.  NULLs
\* never conflict.
UniqueConflict(t, iata, icao, icaoUnique) ==
    \/ iata /= None /\ t.iata_code = iata
    \/ icaoUnique /\ icao /= None /\ t.icao_code = icao

\* Faulty variant of InsertOrReplace: INSERT OR IGNORE (the first write wins).
InsertOrIgnore(table, id, iata, icao, name, icaoUnique) ==
    IF \E t \in table : UniqueConflict(t, iata, icao, icaoUnique)
    THEN table
    ELSE table \cup {[id |-> id, iata_code |-> iata, icao_code |-> icao, name |-> name]}

\* Faulty variant of InsertOrReplace: a plain INSERT into a table without constraints.
InsertPlain(table, id, iata, icao, name, icaoUnique) ==
    table \cup {[id |-> id, iata_code |-> iata, icao_code |-> icao, name |-> name]}

\* Faulty variant of InsertOrReplace: an upsert that keeps the stored value of a
\* column whose new value is NULL.
InsertOrMerge(table, id, iata, icao, name, icaoUnique) ==
    LET old == { t \in table : t.iata_code = iata }
    IN  {t \in table : ~UniqueConflict(t, iata, icao, icaoUnique)}
            \cup {[id        |-> id,
                   iata_code |-> iata,
                   icao_code |-> IF icao = None /\ old /= {}
                                 THEN (CHOOSE t \in old : TRUE).icao_code ELSE icao,
                   name      |-> IF name = None /\ old /= {}
                                 THEN (CHOOSE t \in old : TRUE).name ELSE name]}

\* INSERT OR REPLACE INTO t (iata_code, icao_code, name, updated_at): every
\* row that conflicts on a UNIQUE column is deleted, then the row is inserted
\* under a fresh id.
InsertOrReplace(table, id, iata, icao, name, icaoUnique) ==
    {t \in table : ~UniqueConflict(t, iata, icao, icaoUnique)}
        \cup {[id |-> id, iata_code |-> iata, icao_code |-> icao, name |-> name]}

insert_airline(d, iata, icao, name) ==
    [d EXCEPT !.airlines = InsertOrReplace(@, d.airline_seq + 1, iata, icao, name,
                                           d.icao_unique),
              !.airline_seq = @ + 1]

insert_airport(d, iata, icao, name) ==
    [d EXCEPT !.airports = InsertOrReplace(@, d.airport_seq + 1, iata, icao, name,
                                           d.icao_unique),
              !.airport_seq = @ + 1]

\* A statement of an insert runs unless the insert raised at an earlier or at
\* this statement: fp = 0 is no failure, fp = n is an sqlite3 error raised by
\* the n-th statement (1 airline upsert, 2 departure upsert, 3 arrival upsert,
\* 4 the fact INSERT).  Every statement before it has been committed.
Runs(stmt, fp) == fp = 0 \/ stmt < fp

RouteRow(r) ==
    [ airline_iata   |-> r.airlineIata,
      airline_icao   |-> r.airlineIcao,
      departure_iata |-> r.departureIata,
      departure_icao |-> r.departureIcao,
      arrival_iata   |-> r.arrivalIata,
      arrival_icao   |-> r.arrivalIcao,
      flight_number  |-> r.flightNumber ]

insert_route(d, r, fp) ==
    LET d1 == IF Truthy(r.airlineIata) /\ Runs(1, fp)
              THEN insert_airline(d, r.airlineIata, r.airlineIcao, None) ELSE d
        d2 == IF Truthy(r.departureIata) /\ Runs(2, fp)
              THEN insert_airport(d1, r.departureIata, r.departureIcao, None) ELSE d1
        d3 == IF Truthy(r.arrivalIata) /\ Runs(3, fp)
              THEN insert_airport(d2, r.arrivalIata, r.arrivalIcao, None) ELSE d2
    IN  IF Runs(4, fp)
        THEN [d3 EXCEPT !.routes = Append(@, RouteRow(r))]
        ELSE d3

ScheduleRow(s) ==
    [ airline_iata             |-> s.airline.iataCode,
      airline_icao             |-> s.airline.icaoCode,
      airline_name             |-> s.airline.name,
      flight_number            |-> s.flight.number,
      departure_iata           |-> s.departure.iataCode,
      departure_icao           |-> s.departure.icaoCode,
      departure_scheduled_time |-> s.departure.scheduledTime,
      arrival_iata             |-> s.arrival.iataCode,
      arrival_icao             |-> s.arrival.icaoCode ]

\* Faulty variant of append_schedule_row: a row equal to a stored one is not stored
\* again.
append_schedule_row_distinct(rows, s) ==
    IF \E j \in 1..Len(rows) : rows[j] = ScheduleRow(s)
    THEN rows
    ELSE Append(rows, ScheduleRow(s))

\* INSERT INTO flight_schedules (...) VALUES (...)
append_schedule_row(rows, s) == Append(rows, ScheduleRow(s))

\* Faulty variant of insert_schedule: the inserts share one transaction that is
\* committed by the caller, and an sqlite3 error rolls it back.
insert_schedule_uncommitted(d, s, fp) ==
    IF fp /= 0
    THEN [d EXCEPT !.airlines = {}, !.airports = {}, !.flight_schedules = << >>]
    ELSE LET d1 == IF Truthy(s.airline.iataCode)
                   THEN insert_airline(d, s.airline.iataCode, s.airline.icaoCode,
                                       s.airline.name)
                   ELSE d
             d2 == IF Truthy(s.departure.iataCode)
                   THEN insert_airport(d1, s.departure.iataCode, s.departure.icaoCode,
                                       None)
                   ELSE d1
             d3 == IF Truthy(s.arrival.iataCode)
                   THEN insert_airport(d2, s.arrival.iataCode, s.arrival.icaoCode, None)
                   ELSE d2
         IN  [d3 EXCEPT !.flight_schedules = append_schedule_row(@, s)]

insert_schedule(d, s, fp) ==
    LET d1 == IF Truthy(s.airline.iataCode) /\ Runs(1, fp)
              THEN insert_airline(d, s.airline.iataCode, s.airline.icaoCode,
                                  s.airline.name)
              ELSE d
        d2 == IF Truthy(s.departure.iataCode) /\ Runs(2, fp)
              THEN insert_airport(d1, s.departure.iataCode, s.departure.icaoCode, None)
              ELSE d1
        d3 == IF Truthy(s.arrival.iataCode) /\ Runs(3, fp)
              THEN insert_airport(d2, s.arrival.iataCode, s.arrival.icaoCode, None)
              ELSE d2
    IN  IF Runs(4, fp)
        THEN [d3 EXCEPT !.flight_schedules = append_schedule_row(@, s)]
        ELSE d3

log_api_usage(d, endpoint, query_params, response_count) ==
    [d EXCEPT !.api_usage = Append(@, [ endpoint       |-> endpoint,
                                        query_params   |-> query_params,
                                        response_count |-> response_count ])]


(***************************************************************************)
(* Configuration: the regions of RegionalAviationCollector.__init__, in    *)
(* dict order, each list cut to its first entries.  A run is made over the *)
(* first shape.nr regions, the first shape.nap major airports and the      *)
(* first shape.nal major airlines of each.                                 *)
(***************************************************************************)
FullRegions ==
    << [ name           |-> "EU",
         major_airports |-> <<"LHR", "CDG", "FRA", "AMS">>,
         major_airlines |-> <<"BA", "AF">> ],
       [ name           |-> "Asia_Pacific",
         major_airports |-> <<"NRT", "HND", "ICN", "PVG">>,
         major_airlines |-> <<"NH", "JL">> ],
       [ name           |-> "Middle_East",
         major_airports |-> <<"DXB", "DOH", "AUH", "KWI">>,
         major_airlines |-> <<"EK", "QR">> ] >>

Min(a, b) == IF a < b THEN a ELSE b

Take(seq, n) == SubSeq(seq, 1, Min(n, Len(seq)))

Regions(shape) ==
    [ r \in 1..shape[1] |->
        [ name           |-> FullRegions[r].name,
          major_airports |-> Take(FullRegions[r].major_airports, shape[2]),
          major_airlines |-> Take(FullRegions[r].major_airlines, shape[3]) ] ]

\* <<regions, major airports per region, major airlines per region>>
Shapes == { <<1, 2, 1>>, <<2, 1, 1>> }

\* get_airline_schedules' static probe list major_airports, cut to its first
\* two entries.
probe_airports == <<"MNL", "DVO">>

(***************************************************************************)
(* The provider.  A world fixes what the provider holds during a run:      *)
(* world.n flights in every departure timetable and world.n - 1 in every   *)
(* arrival timetable; with world.dup the feed of the first probe airport   *)
(* lists its first departure again as its third; with world.fut the        *)
(* future-schedules endpoint returns one flight per call, without it the   *)
(* endpoint answers 404.                                                   *)
(***************************************************************************)
MaxRecords == 3

Worlds ==
    { w \in [ n : 0..MaxRecords, dup : BOOLEAN, fut : BOOLEAN ] : w.dup => w.n >= 3 }

Carriers ==
    << [ iataCode |-> "BA", icaoCode |-> "BAW", name |-> "British Airways" ],
       [ iataCode |-> "NH", icaoCode |-> "ANA", name |-> "All Nippon Airways" ] >>

IcaoTable ==
    [ a \in {"LHR", "CDG", "NRT", "MNL", "DVO", "SYD"} |->
        CASE a = "LHR" -> "EGLL" [] a = "CDG" -> "LFPG" [] a = "NRT" -> "RJAA"
          [] a = "MNL" -> "RPLL" [] a = "DVO" -> "RPMD" [] a = "SYD" -> "YSSY" ]

IcaoOf(a) == IF a \in DOMAIN IcaoTable THEN IcaoTable[a] ELSE None

\* The far end of every flight of the stub.
Remote == "SYD"

\* The j-th flight of the timetable of `airport`.
Flight(airport, type, j) ==
    LET here == [ iataCode |-> airport, icaoCode |-> IcaoOf(airport),
                  scheduledTime |-> j ]
        far  == [ iataCode |-> Remote, icaoCode |-> IcaoOf(Remote),
                  scheduledTime |-> j ]
    IN  [ airline   |-> Carriers[((j - 1) % Len(Carriers)) + 1],
          flight    |-> [ number |-> j ],
          departure |-> IF type = "departure" THEN here ELSE far,
          arrival   |-> IF type = "departure" THEN far ELSE here ]

Timetable(w, airport, type) ==
    LET n == IF type = "departure" THEN w.n ELSE IF w.n > 0 THEN w.n - 1 ELSE 0
    IN  [ j \in 1..n |->
            IF w.dup /\ type = "departure" /\ airport = probe_airports[1] /\ j = 3
            THEN Flight(airport, type, 1)
            ELSE Flight(airport, type, j) ]

FutureTimetable(w, airport, type) ==
    IF w.fut THEN << Flight(airport, type, 1) >> ELSE << >>

(***************************************************************************)
(* The provider client (AviationEdgeScheduleClient).                       *)
(***************************************************************************)
\* The outcomes of one HTTP request of get_schedules:
\*   "ok"          2xx with a JSON list: the list is returned;
\*   "http_error"  RequestException or unparsable body: caught, [] is returned;
\*   "error_body"  2xx with a JSON object ({"error": ...}): the dict is returned;
\*   "raise"       any other exception: it propagates to the caller.
Outcomes == {"ok", "http_error", "error_body", "raise"}

\* What get_schedules (get_departures, get_arrivals) hands to its caller.
get_schedules(w, airport, type, outcome) ==
    CASE outcome = "ok"         -> [ kind |-> "list", recs |-> Timetable(w, airport, type) ]
      [] outcome = "http_error" -> [ kind |-> "list", recs |-> << >> ]
      [] outcome = "error_body" -> [ kind |-> "dict", recs |-> << >> ]
      [] outcome = "raise"      -> [ kind |-> "raise", recs |-> << >> ]

\* len() of a response: a list's length, the number of keys of the error dict.
ResponseLen(resp) == IF resp.kind = "dict" THEN 1 ELSE Len(resp.recs)

RECURSIVE FilterLoop(_, _)
\* The loop of filter_by_airline.
FilterLoop(seq, code) ==
    IF seq = << >> THEN << >>
    ELSE LET s == Head(seq)
             rest == FilterLoop(Tail(seq), code)
         IN  IF s.airline.iataCode = code \/ s.airline.icaoCode = code
             THEN <<s>> \o rest
             ELSE rest

filter_by_airline(schedules, airline_code) == FilterLoop(schedules, airline_code)

DedupKey(s) == <<s.flight.number, s.departure.scheduledTime, s.departure.iataCode>>

RECURSIVE Unique(_, _)
\* The loop of get_airline_schedules over all_schedules, `seen` being
\* seen_flights.
Unique(all, seen) ==
    IF all = << >> THEN << >>
    ELSE IF DedupKey(Head(all)) \in seen
         THEN Unique(Tail(all), seen)
         ELSE <<Head(all)>> \o Unique(Tail(all), seen \cup {DedupKey(Head(all))})

\* Faulty variant of unique_schedules: no duplicate is dropped.
unique_schedules_all(all_schedules) == all_schedules

unique_schedules(all_schedules) == Unique(all_schedules, {})

(***************************************************************************)
(* The process: execute_collection.main, RegionalAviationCollector() and   *)
(* collect_regional_data.                                                  *)
(***************************************************************************)
VARIABLES
    regions,          \* self.regions
    world,            \* what the provider holds
    api_key,          \* AVIATION_EDGE_API_KEY in the environment (None: unset)
    pc,               \* where the process is
    execute,          \* the argument of collect_regional_data ("unset": not called)
    total_collected,  \* the totals of collect_regional_data
    error,            \* the exception that left the last call ("none": none)
    exit_code,        \* the exit status of the process (-1: still running)
    opened,           \* whether collect_regional_data opened the store
    calls,            \* history: the HTTP requests made, in order
    slept,            \* history: the time.sleep calls made, in order
    req,              \* ClientSpec: the client call made
    resp              \* ClientSpec: what the client call handed back

storeVars == <<db, hist>>

runVars == <<regions, world, api_key, pc, execute, total_collected, error, exit_code,
             opened, calls, slept, req, resp>>

vars == <<db, hist, regions, world, api_key, pc, execute, total_collected, error,
          exit_code, opened, calls, slept, req, resp>>

NoResp == [ kind |-> "none", recs |-> << >> ]

NoReq == [ op |-> "none", code |-> None, type |-> None, outcomes |-> << >> ]

\* "total_collected = {'routes': 0, 'schedules': 0, 'api_calls': 0}"
NoTotals == [ routes |-> 0, schedules |-> 0, api_calls |-> 0 ]

\* No collector and no client is in use.
RunIdle ==
    /\ regions = << >>
    /\ world = [ n |-> 0, dup |-> FALSE, fut |-> FALSE ]
    /\ api_key = None
    /\ pc = "idle"
    /\ execute = "unset"
    /\ total_collected = NoTotals
    /\ error = "none"
    /\ exit_code = -1
    /\ opened = FALSE
    /\ calls = << >>
    /\ slept = << >>
    /\ req = NoReq
    /\ resp = NoResp

\* What the database file holds when the process starts.  It holds no row (it
\* is absent, or was created by AviationDatabase or by the future-schedules
\* client), or it holds what an earlier session had committed when it ended:
\* here the first departure of MNL and the first usage record of
\* import_data.py.
StoredBefore ==
    { EmptyDb(u) : u \in BOOLEAN }
        \cup { log_api_usage(insert_schedule(EmptyDb(TRUE), Flight("MNL", "departure", 1), 0),
                             "/timetable",
                             [ iataCode |-> "MNL", type |-> "departure" ], 1) }

\* The process has started.
Init ==
    /\ db \in StoredBefore
    /\ hist = << >>
    /\ regions \in { Regions(sh) : sh \in Shapes }
    /\ world \in Worlds
    /\ api_key \in {None, "", "key"}
    /\ pc = "start"
    /\ execute = "unset"
    /\ total_collected = NoTotals
    /\ error = "none"
    /\ exit_code = -1
    /\ opened = FALSE
    /\ calls = << >>
    /\ slept = << >>
    /\ req = NoReq
    /\ resp = NoResp

NAirports(r) == Len(regions[r].major_airports)

NAirlines(r) == Len(regions[r].major_airlines)

\* The airport or airline a task is about.
Target(t) ==
    IF t.kind = "airline" THEN regions[t.r].major_airlines[t.i]
    ELSE regions[t.r].major_airports[t.i]

\* The direction an airport task asks for.
TypeOf(t) == IF t.kind = "arr" THEN "arrival" ELSE "departure"

QueryParams(t) ==
    IF t.kind = "airline"
    THEN [ airlineIata |-> Target(t) ]
    ELSE [ iataCode |-> Target(t), type |-> TypeOf(t) ]

\* Faulty variant of Construct: a missing key is not checked.
ConstructUnchecked ==
    /\ pc = "start"
    /\ pc' = "new"
    /\ UNCHANGED <<db, hist, regions, world, api_key, execute, total_collected, error,
                   exit_code, opened, calls, slept, req, resp>>

\* RegionalAviationCollector(): AviationEdgeScheduleClient() raises ValueError
\* when no API key is set; otherwise the future-schedules client is built,
\* which creates the tables the file lacks.
Construct ==
    /\ pc = "start"
    /\ IF ~Truthy(api_key)
       THEN /\ error' = "ValueError"
            /\ pc' = "raised"
       ELSE /\ error' = error
            /\ pc' = "new"
    /\ UNCHANGED <<db, hist, regions, world, api_key, execute, total_collected,
                   exit_code, opened, calls, slept, req, resp>>

\* Faulty variant of StartRun: the execute flag is not looked at.
StartRunUnguarded ==
    /\ pc = "new"
    /\ \E ex \in BOOLEAN : execute' = IF ex THEN "True" ELSE "False"
    /\ total_collected' = NoTotals
    /\ opened' = TRUE
    /\ pc' = "raised"
    /\ error' = "UnboundLocalError"
    /\ UNCHANGED <<db, hist, regions, world, api_key, exit_code, calls, slept, req, resp>>

\* collect_regional_data(execute).  A dry run returns at once.  A real run
\* sets the totals, opens the store and enters the region loop, whose second
\* statement "region_start = datetime.now()" (line 179, outside every try
\* block) reads the name datetime.  The import of line 243 binds datetime in
\* this function, which makes the name local to the whole function body, and
\* nothing has bound it when line 179 runs in the first iteration: the
\* statement raises UnboundLocalError, the with block closes the store, and
\* the exception leaves collect_regional_data.  With no region configured the
\* loop body is not entered, the totals are printed and None is returned.
StartRun ==
    /\ pc = "new"
    /\ \E ex \in BOOLEAN :
         IF ~ex
         THEN /\ execute' = "False"
              /\ pc' = "returned"
              /\ UNCHANGED <<total_collected, opened, error>>
         ELSE /\ execute' = "True"
              /\ total_collected' = NoTotals
              /\ opened' = TRUE
              /\ IF Len(regions) = 0
                 THEN pc' = "returned" /\ error' = error
                 ELSE pc' = "raised" /\ error' = "UnboundLocalError"
    /\ UNCHANGED <<db, hist, regions, world, api_key, exit_code, calls, slept, req, resp>>

\* Faulty variant of Interrupt: closing the store undoes what the file held.
InterruptRolledBack ==
    /\ pc = "new"
    /\ execute' = "True"
    /\ total_collected' = NoTotals
    /\ opened' = TRUE
    /\ error' = "KeyboardInterrupt"
    /\ pc' = "raised"
    /\ db' = EmptyDb(db.icao_unique)
    /\ UNCHANGED <<hist, regions, world, api_key, exit_code, calls, slept, req, resp>>

\* Ctrl-C while collect_regional_data(execute=True) runs, which is while it
\* prints its banner, sets the totals or opens the store (lines 171 to 178):
\* KeyboardInterrupt is not an Exception, so no handler of
\* collect_regional_data catches it; when the store is open the with block
\* closes the connection (__exit__ calls close, which neither commits nor
\* undoes a commit), and the exception leaves the call.
Interrupt ==
    /\ pc = "new"
    /\ execute' = "True"
    /\ total_collected' = NoTotals
    /\ opened' \in BOOLEAN
    /\ error' = "KeyboardInterrupt"
    /\ pc' = "raised"
    /\ UNCHANGED <<db, hist, regions, world, api_key, exit_code, calls, slept, req, resp>>

\* execute_collection.main: "except KeyboardInterrupt: sys.exit(1)" and
\* "except Exception: sys.exit(1)"; after a normal return main ends and the
\* process exits with status 0.
MainExit ==
    /\ pc \in {"returned", "raised"}
    /\ pc' = "exit"
    /\ exit_code' = IF pc = "raised" THEN 1 ELSE 0
    /\ UNCHANGED <<db, hist, regions, world, api_key, execute, total_collected, error,
                   opened, calls, slept, req, resp>>

Next == Construct \/ StartRun \/ Interrupt \/ MainExit

Spec == Init /\ [][Next]_vars

(***************************************************************************)
(* ClientSpec: one call of a provider client, made directly.               *)
(***************************************************************************)
\* "time.sleep(0.5)" of get_airline_schedules, in tenths of a second.
ProbeDelay == 5

RECURSIVE ProbeLoopAbandoned(_, _, _, _)
\* Faulty variant of ProbeLoop: a probe that raises ends the loop.
ProbeLoopAbandoned(w, airline_code, outs, pi) ==
    IF pi > Len(probe_airports) THEN << >>
    ELSE LET r == get_schedules(w, probe_airports[pi], "departure", outs[pi])
         IN  IF r.kind = "list"
             THEN filter_by_airline(r.recs, airline_code)
                      \o ProbeLoopAbandoned(w, airline_code, outs, pi + 1)
             ELSE << >>

RECURSIVE ProbeLoop(_, _, _, _)
\* The loop of get_airline_schedules over its probe airports, outs[pi] being
\* the outcome of the request of probe pi: get_departures, filter_by_airline,
\* extend.  A probe that raises is skipped ("except Exception: continue");
\* so is an error body, whose keys filter_by_airline cannot read.
ProbeLoop(w, airline_code, outs, pi) ==
    IF pi > Len(probe_airports) THEN << >>
    ELSE LET r   == get_schedules(w, probe_airports[pi], "departure", outs[pi])
             got == IF r.kind = "list"
                    THEN filter_by_airline(r.recs, airline_code) ELSE << >>
         IN  got \o ProbeLoop(w, airline_code, outs, pi + 1)

get_airline_schedules(w, airline_code, outs) ==
    unique_schedules(ProbeLoop(w, airline_code, outs, 1))

RECURSIVE ProbeSleeps(_, _)
\* The sleeps of the probe loop: one after every probe that did not raise.
ProbeSleeps(outs, pi) ==
    IF pi > Len(probe_airports) THEN << >>
    ELSE (IF outs[pi] \in {"ok", "http_error"} THEN <<ProbeDelay>> ELSE << >>)
             \o ProbeSleeps(outs, pi + 1)

\* What get_future_schedules returns: every request or parse error, and every
\* error body, is turned into [].
get_future_schedules(w, airport, type, outcome) ==
    IF outcome = "ok" THEN FutureTimetable(w, airport, type) ELSE << >>

ClientAirports == {"LHR", "MNL"}

ClientAirlineCodes == {"BA", "BAW", "NH", "ba"}

HttpCall(endpoint, airport, type, outcome) ==
    [ endpoint |-> endpoint, airport |-> airport, type |-> type, outcome |-> outcome ]

\* Faulty variant of Requests: a request that failed is sent once more.
RequestsRetried(endpoint, airport, type, outcome) ==
    IF outcome = "ok"
    THEN << HttpCall(endpoint, airport, type, outcome) >>
    ELSE << HttpCall(endpoint, airport, type, outcome),
            HttpCall(endpoint, airport, type, outcome) >>

\* The HTTP requests of one get_schedules or get_future_schedules call:
\* requests.get is called once, whatever its outcome.
Requests(endpoint, airport, type, outcome) ==
    << HttpCall(endpoint, airport, type, outcome) >>

RECURSIVE ProbeRequests(_, _)
\* The HTTP requests of get_airline_schedules: one get_departures call per
\* probe airport, in list order.
ProbeRequests(outs, pi) ==
    IF pi > Len(probe_airports) THEN << >>
    ELSE Requests("timetable", probe_airports[pi], "departure", outs[pi])
             \o ProbeRequests(outs, pi + 1)

ClientInit ==
    /\ db = EmptyDb(FALSE)
    /\ hist = << >>
    /\ regions = << >>
    /\ world \in Worlds
    /\ api_key = "key"
    /\ pc = "client"
    /\ execute = "unset"
    /\ total_collected = NoTotals
    /\ error = "none"
    /\ exit_code = -1
    /\ opened = FALSE
    /\ calls = << >>
    /\ slept = << >>
    /\ req = NoReq
    /\ resp = NoResp

\* get_schedules(iata_code, type) (get_departures, get_arrivals): one request.
ClientGetSchedules ==
    /\ pc = "client"
    /\ \E airport \in ClientAirports, type \in {"departure", "arrival"},
          outcome \in Outcomes :
         /\ req' = [ op |-> "get_schedules", code |-> airport, type |-> type,
                     outcomes |-> <<outcome>> ]
         /\ calls' = calls \o Requests("timetable", airport, type, outcome)
         /\ resp' = get_schedules(world, airport, type, outcome)
    /\ pc' = "client_done"
    /\ UNCHANGED <<db, hist, regions, world, api_key, execute, total_collected, error,
                   exit_code, opened, slept>>

\* get_airline_schedules(airline_code): one request per probe airport.
ClientGetAirlineSchedules ==
    /\ pc = "client"
    /\ \E code \in ClientAirlineCodes, outs \in [ 1..Len(probe_airports) -> Outcomes ] :
         /\ req' = [ op |-> "get_airline_schedules", code |-> code, type |-> "departure",
                     outcomes |-> outs ]
         /\ calls' = calls \o ProbeRequests(outs, 1)
         /\ slept' = slept \o ProbeSleeps(outs, 1)
         /\ resp' = [ kind |-> "list", recs |-> get_airline_schedules(world, code, outs) ]
    /\ pc' = "client_done"
    /\ UNCHANGED <<db, hist, regions, world, api_key, execute, total_collected, error,
                   exit_code, opened>>

\* get_future_schedules(iata_code, type, date) with valid arguments: one
\* request.
ClientGetFutureSchedules ==
    /\ pc = "client"
    /\ \E airport \in ClientAirports, type \in {"departure", "arrival"},
          outcome \in {"ok", "http_error", "error_body"} :
         /\ req' = [ op |-> "get_future_schedules", code |-> airport, type |-> type,
                     outcomes |-> <<outcome>> ]
         /\ calls' = calls \o Requests("flightsFuture", airport, type, outcome)
         /\ resp' = [ kind |-> "list",
                      recs |-> get_future_schedules(world, airport, type, outcome) ]
    /\ pc' = "client_done"
    /\ UNCHANGED <<db, hist, regions, world, api_key, execute, total_collected, error,
                   exit_code, opened, slept>>

ClientNext ==
    ClientGetSchedules \/ ClientGetAirlineSchedules \/ ClientGetFutureSchedules

ClientSpec == ClientInit /\ [][ClientNext]_vars

(***************************************************************************)
(* StoreSpec: the store's API called directly, at most MaxOps calls on an  *)
(* empty store.  A call returns normally (fp = 0) or raises an sqlite3     *)
(* error at its statement fp; the store's methods catch nothing, so the    *)
(* error reaches the caller.                                               *)
(***************************************************************************)
AirlineCodes == {"BA", "AF"}

AirlineIcaos == {None, "BAW"}

AirportCodes == {"LHR", "CDG"}

AirportIcaos == {None, "EGLL"}

Names == {None, "n1", "n2"}

AirlineParts ==
    { [ iataCode |-> None, icaoCode |-> None, name |-> None ],
      [ iataCode |-> "BA", icaoCode |-> "BAW", name |-> "n1" ],
      [ iataCode |-> "AF", icaoCode |-> "BAW", name |-> "n2" ] }

AirportParts ==
    { [ iataCode |-> None, icaoCode |-> None, scheduledTime |-> None ],
      [ iataCode |-> "LHR", icaoCode |-> "EGLL", scheduledTime |-> None ],
      [ iataCode |-> "CDG", icaoCode |-> "EGLL", scheduledTime |-> None ] }

ScheduleInputs ==
    { [ airline |-> a, flight |-> [ number |-> None ], departure |-> d, arrival |-> r ] :
        a \in AirlineParts, d \in AirportParts, r \in AirportParts }

RouteInputs ==
    { [ airlineIata |-> a.iataCode, airlineIcao |-> a.icaoCode,
        departureIata |-> d.iataCode, departureIcao |-> d.icaoCode,
        arrivalIata |-> r.iataCode, arrivalIcao |-> r.icaoCode,
        flightNumber |-> None ] :
        a \in AirlineParts, d \in AirportParts,
        r \in { p \in AirportParts : p.iataCode /= "LHR" } }

\* The statements at which an insert is let fail: the first (nothing of the
\* record is written) and the fact INSERT (its references are).
InsertFaults == {1, 4}

\* The records whose insert is let fail.
FaultyInputs ==
    { s \in ScheduleInputs : s.airline.iataCode = "BA" /\ s.departure.iataCode = "LHR" }

UsageInputs ==
    { [ endpoint       |-> "/timetable",
        query_params   |-> [ iataCode |-> "LHR", type |-> "departure" ],
        response_count |-> n ] : n \in 0..1 }

\* Whether a store call whose statement fp failed raises to its caller: no
\* method of the store has a try block.
Raises(fp) == fp /= 0

StoreCall(op, arg, fp) == [ op |-> op, arg |-> arg, fp |-> fp, raised |-> Raises(fp) ]

StoreInit ==
    /\ db \in { EmptyDb(u) : u \in BOOLEAN }
    /\ hist = << >>
    /\ RunIdle

StoreInsertAirline ==
    /\ Len(hist) < MaxOps
    /\ \E iata \in AirlineCodes, icao \in AirlineIcaos, name \in Names :
         /\ db' = insert_airline(db, iata, icao, name)
         /\ hist' = Append(hist, StoreCall("insert_airline",
                                            [ iata_code |-> iata, icao_code |-> icao,
                                              name |-> name ], 0))
    /\ UNCHANGED runVars

StoreInsertAirport ==
    /\ Len(hist) < MaxOps
    /\ \E iata \in AirportCodes, icao \in AirportIcaos, name \in Names :
         /\ db' = insert_airport(db, iata, icao, name)
         /\ hist' = Append(hist, StoreCall("insert_airport",
                                            [ iata_code |-> iata, icao_code |-> icao,
                                              name |-> name ], 0))
    /\ UNCHANGED runVars

StoreInsertRoute ==
    /\ Len(hist) < MaxOps
    /\ \E r \in RouteInputs :
         /\ db' = insert_route(db, r, 0)
         /\ hist' = Append(hist, StoreCall("insert_route", r, 0))
    /\ UNCHANGED runVars

StoreInsertSchedule ==
    /\ Len(hist) < MaxOps
    /\ \E s \in ScheduleInputs, fp \in {0} \cup InsertFaults :
         /\ fp /= 0 => s \in FaultyInputs
         /\ db' = insert_schedule(db, s, fp)
         /\ hist' = Append(hist, StoreCall("insert_schedule", s, fp))
    /\ UNCHANGED runVars

StoreLogUsage ==
    /\ Len(hist) < MaxOps
    /\ \E u \in UsageInputs, fp \in {0, 1} :
         /\ db' = IF fp = 0
                  THEN log_api_usage(db, u.endpoint, u.query_params, u.response_count)
                  ELSE db
         /\ hist' = Append(hist, StoreCall("log_api_usage", u, fp))
    /\ UNCHANGED runVars

StoreNext ==
    \/ StoreInsertAirline
    \/ StoreInsertAirport
    \/ StoreInsertRoute
    \/ StoreInsertSchedule
    \/ StoreLogUsage

StoreSpec == StoreInit /\ [][StoreNext]_vars

(***************************************************************************)
(* The task list the loops of collect_regional_data walk: per region the   *)
(* departure and the arrival task of each major airport, then the          *)
(* departure (route-equivalent) task of each major airport, then the       *)
(* schedule task of each major airline.                                    *)
(***************************************************************************)
RegionTasks(r) ==
    [ j \in 1..(2 * NAirports(r)) |->
        [ r |-> r, kind |-> IF j % 2 = 1 THEN "dep" ELSE "arr", i |-> (j + 1) \div 2 ] ]
    \o [ j \in 1..NAirports(r) |-> [ r |-> r, kind |-> "route", i |-> j ] ]
    \o [ j \in 1..NAirlines(r) |-> [ r |-> r, kind |-> "airline", i |-> j ] ]

RECURSIVE TasksFrom(_)
TasksFrom(r) == IF r > Len(regions) THEN << >> ELSE RegionTasks(r) \o TasksFrom(r + 1)

TaskList == TasksFrom(1)

Range(seq) == { seq[j] : j \in 1..Len(seq) }

(***************************************************************************)
(* Claims about the store (StoreSpec).                                     *)
(***************************************************************************)
LastOp == hist[Len(hist)]

HasAirline(code) == \E t \in db.airlines : t.iata_code = code

HasAirport(code) == \E t \in db.airports : t.iata_code = code

\* C2 (as claimed): right after insert_schedule(record) has returned, every
\* non-null airline_iata, departure_iata and arrival_iata of the new
\* flight_schedules row is the iata_code of a row of airlines / airports.
C2_ReferencesExist ==
    (hist /= << >> /\ LastOp.op = "insert_schedule" /\ ~LastOp.raised) =>
        LET row == db.flight_schedules[Len(db.flight_schedules)]
        IN  /\ row.airline_iata /= None => HasAirline(row.airline_iata)
            /\ row.departure_iata /= None => HasAirport(row.departure_iata)
            /\ row.arrival_iata /= None => HasAirport(row.arrival_iata)

\* The last two calls upserted the same code into the same reference table.
SameCodeTwice ==
    /\ Len(hist) >= 2
    /\ LastOp.op \in {"insert_airline", "insert_airport"}
    /\ hist[Len(hist) - 1].op = LastOp.op
    /\ hist[Len(hist) - 1].arg.iata_code = LastOp.arg.iata_code

\* C8: after insert_airline(c, i, n1) then insert_airline(c, i', n2) there is
\* exactly one airlines row with iata_code = c, and its name is n2; likewise
\* for insert_airport and the airports table.
C8_SecondUpsertWins ==
    SameCodeTwice =>
        LET table == IF LastOp.op = "insert_airline" THEN db.airlines ELSE db.airports
            rows  == { t \in table : t.iata_code = LastOp.arg.iata_code }
        IN  /\ Cardinality(rows) = 1
            /\ \A t \in rows : t.name = LastOp.arg.name

\* C8's case: the same code upserted twice, under two different names.
C8_Witness ==
    /\ SameCodeTwice
    /\ LastOp.op = "insert_airline"
    /\ hist[Len(hist) - 1].arg.name = "n1"
    /\ LastOp.arg.name = "n2"
    /\ \E t \in db.airlines : t.iata_code = LastOp.arg.iata_code /\ t.name = "n2"

\* C9: after any sequence of insert_airline, insert_airport, insert_route and
\* insert_schedule calls each of airlines and airports holds at most one row
\* per iata_code.
C9_OneRowPerCode ==
    /\ \A t1, t2 \in db.airlines : t1.iata_code = t2.iata_code => t1 = t2
    /\ \A t1, t2 \in db.airports : t1.iata_code = t2.iata_code => t1 = t2

\* The airline code a store call upserts (None: none).
AirlineCodeOf(h) ==
    CASE h.op = "insert_airline"  -> h.arg.iata_code
      [] h.op = "insert_route"    -> h.arg.airlineIata
      [] h.op = "insert_schedule" -> h.arg.airline.iataCode
      [] OTHER                    -> None

\* C9's case: a schedule and a route that name the same airline have been
\* inserted, and the airline has one row.
C9_Witness ==
    /\ Len(hist) >= 2
    /\ hist[1].op = "insert_schedule"
    /\ hist[2].op = "insert_route"
    /\ AirlineCodeOf(hist[1]) = "BA"
    /\ AirlineCodeOf(hist[2]) = "BA"
    /\ Cardinality({ t \in db.airlines : t.iata_code = "BA" }) = 1

\* C10 (as claimed): a reference row, once upserted, is there in every later
\* state: no step removes the row of an IATA code.
C10_NeverDeleted ==
    [][ /\ \A c \in AirlineCodes : HasAirline(c) => HasAirline(c)'
        /\ \A c \in AirportCodes : HasAirport(c) => HasAirport(c)' ]_vars

(***************************************************************************)

(***************************************************************************)
(* Claims about a run of collect_regional_data (Spec).                     *)
(***************************************************************************)
\* An HTTP request that completed: a 2xx answer with a JSON body.
Completed(c) == c.outcome \in {"ok", "error_body"}

\* collect_regional_data(execute=True) has ended, by a return or by an
\* exception.
RunOver == execute = "True" /\ pc \in {"returned", "raised", "exit"}

\* The provider call of the task t has been made.
TaskCalled(t) ==
    \E j \in 1..Len(calls) :
        /\ calls[j].endpoint = "timetable"
        /\ calls[j].type = TypeOf(t)
        /\ IF t.kind = "airline"
           THEN calls[j].airport \in Range(probe_airports)
           ELSE calls[j].airport = Target(t)

\* The usage rows written for the task t.
UsageRows(t) ==
    { j \in 1..Len(db.api_usage) : db.api_usage[j].query_params = QueryParams(t) }

\* The number of rows of a sequence equal to x.
Count(rows, x) == Cardinality({ j \in 1..Len(rows) : rows[j] = x })

AirportTasks == { t \in Range(TaskList) : t.kind \in {"dep", "arr"} }

C3_LaterTasksAttempted ==
    RunOver => \A t \in Range(TaskList) : TaskCalled(t)

\* The failure count of the run summary (-1: the summary has none).
FailureCount ==
    IF "failures" \in DOMAIN total_collected THEN total_collected.failures ELSE -1

\* The tasks that raised: their call was made and they wrote no usage row.
RaisedTasks == { t \in Range(TaskList) : TaskCalled(t) /\ UsageRows(t) = {} }

\* C4 (as claimed): when the run has ended, the failure count of its summary
\* is the number of tasks that raised.
C4_FailureCounted ==
    RunOver => FailureCount = Cardinality(RaisedTasks)

\* The scenario of C5: one region with two major airports and one airline,
\* three flights per departure timetable and two per arrival timetable, the
\* probes yielding four flights of the airline of which one repeats another,
\* and the run has ended.
C5_Scenario ==
    /\ RunOver
    /\ regions = Regions(<<1, 2, 1>>)
    /\ world.n = 3
    /\ world.dup

\* C5 (as claimed): the run of the scenario leaves 8 flight_schedules rows and
\* 3 api_usage rows, and has not failed.
C5_EightRowsThreeRecords ==
    C5_Scenario =>
        /\ Len(db.flight_schedules) = 8
        /\ Len(db.api_usage) = 3
        /\ error = "none"

Returned(op, n) ==
    SelectSeq(SubSeq(hist, 1, n), LAMBDA h : h.op = op /\ ~h.raised)

UsageRow(u) ==
    [ endpoint |-> u.endpoint, query_params |-> u.query_params,
      response_count |-> u.response_count ]

C12_EarlierRecordsKept ==
    \A n \in 1..Len(hist) :
        (hist[n].op = "insert_schedule" /\ hist[n].raised) =>
            LET before == Returned("insert_schedule", n - 1)
            IN  /\ Len(db.flight_schedules) >= Len(before)
                /\ \A j \in 1..Len(before) :
                       db.flight_schedules[j] = ScheduleRow(before[j].arg)

\* C12's case: the first record was inserted, the insert of the second raised
\* at its fact INSERT, and the first record's row is stored.
C12_Witness ==
    /\ Len(hist) = 2
    /\ hist[1].op = "insert_schedule" /\ ~hist[1].raised
    /\ hist[2].op = "insert_schedule" /\ hist[2].fp = 4
    /\ Len(db.flight_schedules) = 1
    /\ db.flight_schedules[1] = ScheduleRow(hist[1].arg)

(***************************************************************************)
(* Claims about the order and the pacing of a run (Spec).                  *)
(***************************************************************************)
\* "time.sleep(1.5)" after a task, in tenths of a second.
TaskDelay == 15

\* The calls made for the task t, as positions in calls.
CallsOf(t) ==
    { j \in 1..Len(calls) :
        /\ calls[j].endpoint = "timetable"
        /\ calls[j].type = TypeOf(t)
        /\ IF t.kind = "airline"
           THEN calls[j].airport \in Range(probe_airports)
           ELSE calls[j].airport = Target(t) }

\* Every call of t1 was made before every call of t2.
Precedes(t1, t2) == \A j1 \in CallsOf(t1), j2 \in CallsOf(t2) : j1 < j2

OrderedTasks == { t \in Range(TaskList) : t.kind \in {"dep", "arr", "airline"} }

KindRank(kind) ==
    CASE kind = "dep" -> 1 [] kind = "arr" -> 2 [] kind = "route" -> 3
      [] kind = "airline" -> 4

C16_FailureDistinguishable ==
    (/\ pc = "client_done"
     /\ req.op \in {"get_schedules", "get_future_schedules"}
     /\ req.outcomes[1] = "http_error")
        => /\ resp.kind = "raise"
           /\ resp /= [ kind |-> "list", recs |-> << >> ]

\* C17 (as claimed): no log_api_usage call raises to its caller, whatever
\* happens to its INSERT.
C17_LogNeverFails ==
    \A j \in 1..Len(hist) : hist[j].op = "log_api_usage" => ~hist[j].raised

\* C18: without an API key the constructor raises ValueError at once:
\* collect_regional_data is never called, the store is not opened, no HTTP
\* request is made, no row is written, and the process exits with status 1.
C18_MissingKeyFatal ==
    ~Truthy(api_key) =>
        /\ pc \in {"start", "raised", "exit"}
        /\ execute = "unset"
        /\ ~opened
        /\ calls = << >>
        /\ db \in StoredBefore
        /\ pc /= "start" => error = "ValueError"
        /\ pc = "exit" => exit_code = 1

\* C18's case: the key is unset, the constructor has raised and the process
\* has exited with status 1.
C18_Witness ==
    /\ api_key = None
    /\ error = "ValueError"
    /\ pc = "exit"
    /\ exit_code = 1

ReturnValue == None

\* C20 (as claimed): a run that has ended has returned a summary, whose task
\* total is the number of tasks the run attempted.
C20_SummaryTaskTotal ==
    RunOver =>
        /\ error = "none"
        /\ ReturnValue /= None
        /\ total_collected.api_calls =
               Cardinality({ t \in Range(TaskList) : TaskCalled(t) })

FutureCalls == { j \in 1..Len(calls) : calls[j].endpoint = "flightsFuture" }

\* C22 (as claimed), for a run that has ended while the future-schedules
\* endpoint was unavailable: the run has not failed, no future-schedules
\* request was made, and the standard tasks of every region were executed.
C22_ProbeAndDegrade ==
    (RunOver /\ ~world.fut /\ error /= "KeyboardInterrupt") =>
        /\ error = "none"
        /\ FutureCalls = {}
        /\ \A t \in OrderedTasks : TaskCalled(t)

(***************************************************************************)
(* Claims about get_airline_schedules (ClientSpec).                        *)
(***************************************************************************)
\* A get_airline_schedules call has returned.
AirlineCallDone == pc = "client_done" /\ req.op = "get_airline_schedules"

RECURSIVE ProbeResponses(_)
\* The records the provider sent in answer to the probes pi, pi + 1, ... of
\* the call, in probe order.
ProbeResponses(pi) ==
    IF pi > Len(probe_airports) THEN << >>
    ELSE (IF req.outcomes[pi] = "ok"
          THEN Timetable(world, probe_airports[pi], "departure")
          ELSE << >>) \o ProbeResponses(pi + 1)

\* The positions of the probe responses whose airline code is the one asked
\* for.
Matching ==
    { i \in 1..Len(ProbeResponses(1)) :
        \/ ProbeResponses(1)[i].airline.iataCode = req.code
        \/ ProbeResponses(1)[i].airline.icaoCode = req.code }

\* The matching positions whose key occurs at no earlier matching position.
FirstOfKey ==
    { i \in Matching :
        \A k \in Matching :
            k < i => DedupKey(ProbeResponses(1)[k]) /= DedupKey(ProbeResponses(1)[i]) }

\* C23: the call returns the records at the positions FirstOfKey, in the
\* order of the probe responses: the matching records without those whose
\* key (flight number, scheduled departure time, departure airport) occurred
\* earlier, and no two returned records have the same key.
C23_FilteredAndDeduplicated ==
    AirlineCallDone =>
        /\ resp.kind = "list"
        /\ Len(resp.recs) = Cardinality(FirstOfKey)
        /\ \A i \in FirstOfKey :
               resp.recs[Cardinality({ k \in FirstOfKey : k < i }) + 1] = ProbeResponses(1)[i]
        /\ \A p, q \in 1..Len(resp.recs) :
               p /= q => DedupKey(resp.recs[p]) /= DedupKey(resp.recs[q])

\* C23's case: both probes were answered, the airline was asked for by its
\* ICAO code, records of another airline were left out, and a record was
\* dropped because its key had occurred.
C23_Witness ==
    /\ AirlineCallDone
    /\ req.code = "BAW"
    /\ \A pi \in 1..Len(probe_airports) : req.outcomes[pi] = "ok"
    /\ Cardinality(Matching) < Len(ProbeResponses(1))
    /\ Cardinality(FirstOfKey) < Cardinality(Matching)
    /\ Len(resp.recs) = Cardinality(FirstOfKey)
    /\ Len(resp.recs) >= 2

\* The probes of the call that raised: the request raised, or the body was
\* an error object, which filter_by_airline cannot read.
RaisedProbes ==
    { pi \in 1..Len(probe_airports) : req.outcomes[pi] \in {"raise", "error_body"} }

\* C24: whichever probes raise, the call returns a list; every probe airport
\* was requested once, in list order; and every record of an answered probe
\* that carries the airline code is in the returned list.
C24_FailedProbeSkipped ==
    AirlineCallDone =>
        /\ resp.kind = "list"
        /\ [ j \in 1..Len(calls) |-> calls[j].airport ] = probe_airports
        /\ \A pi \in 1..Len(probe_airports) :
               req.outcomes[pi] = "ok" =>
                   \A s \in Range(Timetable(world, probe_airports[pi], "departure")) :
                       (s.airline.iataCode = req.code \/ s.airline.icaoCode = req.code)
                           => s \in Range(resp.recs)

\* C24's case: the first probe raised, the second was answered, and its
\* matches were returned.
C24_Witness ==
    /\ AirlineCallDone
    /\ req.code = "BA"
    /\ RaisedProbes = {1}
    /\ req.outcomes[1] = "raise"
    /\ req.outcomes[2] = "ok"
    /\ Len(calls) = 2
    /\ Len(resp.recs) >= 1
    /\ \A p \in 1..Len(resp.recs) : resp.recs[p].departure.iataCode = probe_airports[2]

(***************************************************************************)
(* Claims about the optional fields of a reference row (StoreSpec).        *)
(***************************************************************************)
\* The airport codes the last call upserted without a name.
ReferencedAirports ==
    CASE LastOp.op = "insert_schedule" ->
             { c \in {LastOp.arg.departure.iataCode, LastOp.arg.arrival.iataCode} : Truthy(c) }
      [] LastOp.op = "insert_route" ->
             { c \in {LastOp.arg.departureIata, LastOp.arg.arrivalIata} : Truthy(c) }
      [] OTHER -> {}

\* C25: after an upsert that returned, the row of the code holds the icao and
\* the name of the call, null where the call omitted them, whatever the row
\* held before; after insert_schedule or insert_route no airport they
\* reference has a name, and after insert_route the airline has none.
C25_OmittedFieldsBecomeNull ==
    (hist /= << >> /\ ~LastOp.raised) =>
        /\ LastOp.op \in {"insert_airline", "insert_airport"} =>
               LET table == IF LastOp.op = "insert_airline" THEN db.airlines
                            ELSE db.airports
               IN  /\ \E t \in table : t.iata_code = LastOp.arg.iata_code
                   /\ \A t \in table :
                          t.iata_code = LastOp.arg.iata_code =>
                              /\ t.icao_code = LastOp.arg.icao_code
                              /\ t.name = LastOp.arg.name
        /\ \A t \in db.airports : t.iata_code \in ReferencedAirports => t.name = None
        /\ LastOp.op = "insert_route" =>
               \A t \in db.airlines :
                   t.iata_code = LastOp.arg.airlineIata => t.name = None

\* C25's case: LHR was upserted with an ICAO code and a name, then a schedule
\* arriving at LHR was inserted: the row of LHR has no name.
C25_Witness ==
    /\ Len(hist) = 2
    /\ hist[1].op = "insert_airport"
    /\ hist[1].arg = [ iata_code |-> "LHR", icao_code |-> "EGLL", name |-> "n1" ]
    /\ hist[2].op = "insert_schedule"
    /\ ~hist[2].raised
    /\ hist[2].arg.arrival.iataCode = "LHR"
    /\ \E t \in db.airports : t.iata_code = "LHR" /\ t.name = None

(***************************************************************************)
(* Claims about the regions and the tasks of a run (Spec).                 *)
(***************************************************************************)
\* "time.sleep(5)" after a region, in tenths of a second.
RegionDelay == 50

\* The run has ended and was not interrupted.
RunEnded == RunOver /\ error /= "KeyboardInterrupt"

\* C26 (as claimed), for a run over several regions that has ended: the
\* tasks of every region were executed, and the inter-region pause, which is
\* longer than the per-task delay, was slept between any two consecutive
\* regions.
C26_InterRegionPause ==
    (RunEnded /\ Len(regions) >= 2) =>
        /\ RegionDelay > TaskDelay
        /\ \A t \in OrderedTasks : TaskCalled(t)
        /\ Count(slept, RegionDelay) >= Len(regions) - 1

\* The tasks the run has written a usage row for.
LoggedTasks == { t \in Range(TaskList) : UsageRows(t) /= {} }

RunRecords == { j \in 1..Len(db.api_usage) : \E t \in Range(TaskList) : j \in UsageRows(t) }

RECURSIVE SumCounts(_)
\* The sum of the response_count values of the usage rows at the positions S.
SumCounts(S) ==
    IF S = {} THEN 0
    ELSE LET j == CHOOSE k \in S : TRUE
         IN  db.api_usage[j].response_count + SumCounts(S \ {j})

C29_DryRunNoEffect ==
    [][execute' = "False" =>
          /\ calls' = calls
          /\ slept' = slept
          /\ db' = db
          /\ ~opened'
          /\ total_collected' = total_collected
          /\ error' = "none"
          /\ pc' \in {"returned", "exit"}]_vars

\* C29's case: a dry run over a store that held a schedule row and a usage
\* record has returned, and the process has ended.
C29_Witness ==
    /\ execute = "False"
    /\ pc = "exit"
    /\ exit_code = 0
    /\ ~opened
    /\ calls = << >>
    /\ Len(db.flight_schedules) = 1
    /\ Len(db.api_usage) = 1

\* The future-schedules requests made for region r.
FutureCallsOf(r) ==
    { j \in FutureCalls :
        calls[j].airport \in Range(Take(regions[r].major_airports, 3)) }

====
